---- MODULE Spec2Model ----
(***************************************************************************)
(* brent_search: the bracket finder (_bracket.py) and the minimize          *)
(* orchestrator (optimize.py).                                              *)
(*                                                                          *)
(* Numbers.  Abscissas and tolerances are carried as integer multiples of   *)
(* half a unit, one unit being _eps = 2^-26, so that 1.0 is 2^27 and the    *)
(* bisection x0/2 + x1/2 of two even abscissas is exact.  Arithmetic is     *)
(* exact (no rounding); +inf and -inf are the sentinels inf and -inf, with  *)
(* the subtraction of line 147 saturating as IEEE does.  rtol is a ratio    *)
(* <<num, den>>.  An optional argument is <<>> (None) or <<v>>.             *)
(***************************************************************************)
EXTENDS Integers, Sequences, FiniteSets, TLC

VARIABLES
    args,     \* the arguments of the call: f, x0, x1, a, b, gfactor, rtol, atol, maxiter
    entry,    \* the entry point called: "bracket" or "minimize"
    pc,       \* position in the call
    x0, x1, x2, f0, f1, f2,   \* bracket's locals
    nit,      \* bracket's iteration counter
    ecode,    \* bracket's exit code
    result,   \* bracket's returned tuple, <<>> before it returns
    nfev,     \* func.nfev, the wrapper's counter
    ncalls,   \* invocations of the caller's objective since the call began
    callno,   \* calls made so far
    bnit,     \* iterations of the refinement
    nres,     \* the n_evaluations minimize returned, -1 before it returns
    genx,     \* abscissas bracket generated itself and evaluated f at
    gen       \* the last expansion: <<p, q, raw, new>>, new generated from window (p, q)

vars == <<args, entry, pc, x0, x1, x2, f0, f1, f2, nit, ecode, result,
          nfev, ncalls, callno, bnit, nres, genx, gen>>

locals == <<x0, x1, x2, f0, f1, f2, nit, ecode, result, genx, gen>>

--------------------------------------------------------------------------
(* Bounds of the model *)

MaxIter == 2
MaxCalls == 2

--------------------------------------------------------------------------
(* Numbers *)

inf == 2^30

One == 2^27

DefaultMaxiter == 500

DefaultGfactor == 2

DefaultAtol == 2

DefaultRtol == <<1, 2^26>>

Abs(x) == IF x < 0 THEN -x ELSE x

Min2(x, y) == IF x < y THEN x ELSE y

Max2(x, y) == IF x > y THEN x ELSE y

\* x - y where y may be infinite and x is finite
ExtSub(x, y) ==
    IF y = -inf THEN inf
    ELSE IF y = inf THEN -inf
    ELSE IF x = inf THEN inf
    ELSE IF x = -inf THEN -inf
    ELSE x - y

--------------------------------------------------------------------------
(* The caller's objective: a descriptor [kind, c, k] and its value at x *)

F(fn, x) ==
    CASE fn.kind = "quad"  -> (x - fn.c) * (x - fn.c)
      [] fn.kind = "lin"   -> fn.k * x + fn.c
      [] fn.kind = "const" -> fn.c
      [] fn.kind = "abs"   -> Abs(x - fn.c)
      [] fn.kind = "cap"   -> 0 - (x - fn.c) * (x - fn.c)
      [] fn.kind = "flat"  -> Max2(0, Abs(x - fn.c) - fn.k)

StrictlyConvex(fn) == fn.kind = "quad"

\* fn is strictly decreasing on [lo, hi]
StrictlyDecreasingOn(fn, lo, hi) ==
    \/ fn.kind = "lin" /\ fn.k < 0
    \/ fn.kind \in {"quad", "abs"} /\ fn.c >= hi
    \/ fn.kind = "cap" /\ fn.c <= lo

Constant(fn) == fn.kind = "const"

\* the minimiser of a strictly convex objective lies inside (lo, hi)
MinimumInside(fn, lo, hi) == lo < fn.c /\ fn.c < hi

--------------------------------------------------------------------------
(* _bracket.py: helpers *)

\* the bracket test with the strictness lost
BracketedLoose(v0, v1, v2) == v0 >= v1 /\ v1 <= v2

Bracketed(v0, v1, v2) == v0 > v1 /\ v1 < v2

\* _sort reversing the abscissas and leaving the values where they were
_sort_keep_values(p0, p1, p2, v0, v1, v2) ==
    IF p0 > p2 THEN <<p2, p1, p0, v0, v1, v2>>
    ELSE <<p0, p1, p2, v0, v1, v2>>

\* _sort with its comparison inverted
_sort_inverted(p0, p1, p2, v0, v1, v2) ==
    IF p0 < p2 THEN <<p2, p1, p0, v2, v1, v0>>
    ELSE <<p0, p1, p2, v0, v1, v2>>

_sort(p0, p1, p2, v0, v1, v2) ==
    IF p0 > p2 THEN <<p2, p1, p0, v2, v1, v0>>
    ELSE <<p0, p1, p2, v0, v1, v2>>

_boundary_equal(x, lo, hi) == x = lo \/ x = hi

\* the boundary test letting a point on the boundary through
_boundary_inside_closed(x, lo, hi) == lo <= x /\ x <= hi

_boundary_inside(x, lo, hi) == lo < x /\ x < hi

\* the clamp forgetting the upper bound
_ensure_boundary_low_only(x, lo, hi) == Max2(x, lo)

_ensure_boundary(x, lo, hi) == Max2(Min2(x, hi), lo)

\* abs(x) * rtol + atol; the division is exact on every input enumerated below
_tol(x, rt, at) == (Abs(x) * rt[1]) \div rt[2] + at

\* the expansion law of lines 91 and 101: from window (p, q) step on by g * (q - p)
GrowNoFactor(p, q, g) == q + (q - p)

Grow(p, q, g) == q + g * (q - p)

Sorted(s) == IF Len(s) = 2 /\ s[1] > s[2] THEN <<s[2], s[1]>> ELSE s

_initialize_interval(px0, px1, lo, hi, g, rt, at) ==
    LET x   == Sorted(px0 \o px1)
        nx0 == IF Len(x) = 0 THEN Min2(Max2(0, lo), hi) ELSE x[1]
        ox1 == IF Len(x) = 2 THEN <<x[2]>> ELSE px1
        nx1 == IF ox1 = <<>>
               THEN IF ExtSub(nx0, lo) > ExtSub(hi, nx0)
                    THEN Max2(nx0 - 10 * g * _tol(nx0, rt, at), lo)
                    ELSE Min2(nx0 + 10 * g * _tol(nx0, rt, at), hi)
               ELSE ox1[1]
    IN  <<nx0, nx1>>

\* the midpoint x0/2 + x1/2
Midpoint(p0, p1) == (p0 + p1) \div 2

\* <<returned tuple, ecode>>
_resolve_equal_fvalue(fn, p0, p1, v0, v1) ==
    LET m  == Midpoint(p0, p1)
        vm == F(fn, m)
    IN  <<_sort(p0, m, p1, v0, vm, v1), IF ~Bracketed(v0, vm, v1) THEN 5 ELSE 1>>

\* the test of line 73
TooClose(p0, p1, rt, at) == Abs(p0 - p1) < 2 * _tol(p0, rt, at)

\* the assertions of lines 80-83
IntervalAsserts(p0, p1, v0, v1, lo, hi) ==
    /\ lo <= p0 /\ p0 <= hi
    /\ lo <= p1 /\ p1 <= hi
    /\ p0 # p1
    /\ v0 # v1

\* the condition of the while loop of line 98
LoopCond(v0, v1, v2, n, mx, p2, lo, hi) ==
    ~Bracketed(v0, v1, v2) /\ n < mx /\ _boundary_inside(p2, lo, hi)

--------------------------------------------------------------------------
(* optimize.py: the counting wrapper func; k invocations of the objective *)

Evaluate(k) ==
    /\ ncalls' = ncalls + k
    /\ nfev' = IF entry = "minimize" THEN nfev + k ELSE nfev

--------------------------------------------------------------------------
(* The calls enumerated *)

Objectives ==
    {[kind |-> "quad", c |-> c, k |-> 0] : c \in {-12, 4, 108, 200}}
    \cup {[kind |-> "lin", c |-> 0, k |-> k] : k \in {-1, 1}}
    \cup {[kind |-> "const", c |-> 0, k |-> 0],
          [kind |-> "abs", c |-> 4, k |-> 0],
          [kind |-> "cap", c |-> 4, k |-> 0],
          [kind |-> "flat", c |-> 4, k |-> 40]}

Opt(S) == {<<>>} \cup {<<v>> : v \in S}

Starts == Opt({-8, 0, 8})

Lows == {-inf, -8, 0, 8}

Highs == {inf, 4, 8, 200}

Tolerances == {<<<<0, 1>>, 0>>, <<<<0, 1>>, 2>>, <<<<1, 1>>, 2>>}

\* calls of bracket over a small grid, invalid arguments included
GridCalls ==
    {[f |-> fn, x0 |-> p0, x1 |-> p1, a |-> lo, b |-> hi, gfactor |-> g,
      rtol |-> t[1], atol |-> t[2], maxiter |-> mx] :
        fn \in Objectives, p0 \in Starts, p1 \in Starts, lo \in Lows, hi \in Highs,
        g \in {1, 2, 3}, t \in Tolerances, mx \in 0..MaxIter}

\* bracket(f, a=0, b=1) with every other argument at its default
DefaultCalls ==
    {[f |-> fn, x0 |-> <<>>, x1 |-> <<>>, a |-> 0, b |-> One,
      gfactor |-> DefaultGfactor, rtol |-> DefaultRtol, atol |-> DefaultAtol,
      maxiter |-> DefaultMaxiter] :
        fn \in {[kind |-> "lin", c |-> c, k |-> k] : c \in {0, 5}, k \in {-1, -3}}
               \cup {[kind |-> "abs", c |-> c, k |-> 0] : c \in {One, One + 10}}
               \cup {[kind |-> "const", c |-> 0, k |-> 0]}}

\* calls of minimize
MinimizeCalls ==
    {[f |-> fn, x0 |-> p0, x1 |-> p1, a |-> lo, b |-> hi, gfactor |-> g,
      rtol |-> <<0, 1>>, atol |-> 2, maxiter |-> mx] :
        fn \in Objectives, p0 \in Opt({0}), p1 \in Opt({8}), lo \in {-inf, 0},
        hi \in {inf, 200}, g \in {1, 2}, mx \in 0..MaxIter}

--------------------------------------------------------------------------
(* The state machine *)

ResetLocals ==
    /\ x0' = 0 /\ x1' = 0 /\ x2' = 0
    /\ f0' = 0 /\ f1' = 0 /\ f2' = 0
    /\ nit' = 0 /\ ecode' = 0 /\ result' = <<>>
    /\ genx' = {} /\ gen' = <<>>

Init ==
    /\ \/ entry = "bracket" /\ args \in GridCalls \cup DefaultCalls
       \/ entry = "minimize" /\ args \in MinimizeCalls
    /\ pc = "idle"
    /\ x0 = 0 /\ x1 = 0 /\ x2 = 0
    /\ f0 = 0 /\ f1 = 0 /\ f2 = 0
    /\ nit = 0 /\ ecode = 0 /\ result = <<>>
    /\ nfev = 0 /\ ncalls = 0 /\ callno = 0 /\ bnit = 0 /\ nres = -1
    /\ genx = {} /\ gen = <<>>

\* a direct call of bracket
BracketCall ==
    /\ entry = "bracket" /\ pc = "idle"
    /\ pc' = "assert"
    /\ callno' = callno + 1
    /\ ncalls' = 0
    /\ UNCHANGED <<args, entry, locals, nfev, bnit, nres>>

\* minimize keeping the counter of the call before
MinimizeCallNoReset ==
    /\ entry = "minimize" /\ pc \in {"idle", "returned"}
    /\ callno < MaxCalls
    /\ pc' = "assert"
    /\ callno' = callno + 1
    /\ nfev' = nfev
    /\ ncalls' = 0
    /\ bnit' = 0
    /\ nres' = -1
    /\ ResetLocals
    /\ UNCHANGED <<args, entry>>

\* optimize.py 53-59: minimize defines func, sets func.nfev = 0 and calls bracket
MinimizeCall ==
    /\ entry = "minimize" /\ pc \in {"idle", "returned"}
    /\ callno < MaxCalls
    /\ pc' = "assert"
    /\ callno' = callno + 1
    /\ nfev' = 0
    /\ ncalls' = 0
    /\ bnit' = 0
    /\ nres' = -1
    /\ ResetLocals
    /\ UNCHANGED <<args, entry>>

\* _bracket.py 59-62
BracketAssert ==
    /\ pc = "assert"
    /\ pc' = IF args.gfactor > 1 /\ args.maxiter > 0 THEN "init" ELSE "failed"
    /\ UNCHANGED <<args, entry, locals, nfev, ncalls, callno, bnit, nres>>

\* _bracket.py 64
InitializeInterval ==
    /\ pc = "init"
    /\ LET r == _initialize_interval(args.x0, args.x1, args.a, args.b,
                                     args.gfactor, args.rtol, args.atol)
       IN  x0' = r[1] /\ x1' = r[2]
    /\ pc' = "eval"
    /\ UNCHANGED <<args, entry, x2, f0, f1, f2, nit, ecode, result, genx, gen,
                   nfev, ncalls, callno, bnit, nres>>

\* _bracket.py 66-71
EvalStart ==
    /\ pc = "eval"
    /\ LET v0 == F(args.f, x0)
           v1 == F(args.f, x1)
       IN  IF v0 < v1
           THEN x0' = x1 /\ x1' = x0 /\ f0' = v1 /\ f1' = v0
           ELSE x0' = x0 /\ x1' = x1 /\ f0' = v0 /\ f1' = v1
    /\ Evaluate(2)
    /\ genx' = genx \cup (IF args.x0 = <<>> /\ args.x1 = <<>> THEN {x0} ELSE {})
                    \cup (IF args.x1 = <<>> THEN {x1} ELSE {})
    /\ pc' = "check"
    /\ UNCHANGED <<args, entry, x2, f2, nit, ecode, result, gen, callno, bnit, nres>>

\* _bracket.py 73-75
TooCloseReturn ==
    /\ pc = "check"
    /\ TooClose(x0, x1, args.rtol, args.atol)
    /\ ecode' = 3
    /\ result' = _sort(x0, x1, x1, f0, f1, f1)
    /\ pc' = "done"
    /\ UNCHANGED <<args, entry, x0, x1, x2, f0, f1, f2, nit, genx, gen,
                   nfev, ncalls, callno, bnit, nres>>

\* _bracket.py 77-78
EqualStartReturn ==
    /\ pc = "check"
    /\ ~TooClose(x0, x1, args.rtol, args.atol)
    /\ f0 = f1
    /\ LET r == _resolve_equal_fvalue(args.f, x0, x1, f0, f1)
       IN  result' = r[1] /\ ecode' = r[2]
    /\ Evaluate(1)
    /\ genx' = genx \cup {Midpoint(x0, x1)}
    /\ pc' = "done"
    /\ UNCHANGED <<args, entry, x0, x1, x2, f0, f1, f2, nit, gen, callno, bnit, nres>>

\* _bracket.py 80-83, an assertion failing
IntervalAssertFail ==
    /\ pc = "check"
    /\ ~TooClose(x0, x1, args.rtol, args.atol)
    /\ f0 # f1
    /\ ~IntervalAsserts(x0, x1, f0, f1, args.a, args.b)
    /\ pc' = "failed"
    /\ UNCHANGED <<args, entry, locals, nfev, ncalls, callno, bnit, nres>>

\* _bracket.py 85-89
BoundaryStartReturn ==
    /\ pc = "check"
    /\ ~TooClose(x0, x1, args.rtol, args.atol)
    /\ f0 # f1
    /\ IntervalAsserts(x0, x1, f0, f1, args.a, args.b)
    /\ _boundary_equal(x1, args.a, args.b)
    /\ x2' = x1
    /\ f2' = f1
    /\ ecode' = 2
    /\ result' = _sort(x0, x1, x1, f0, f1, f1)
    /\ pc' = "done"
    /\ UNCHANGED <<args, entry, x0, x1, f0, f1, nit, genx, gen,
                   nfev, ncalls, callno, bnit, nres>>

\* _bracket.py 91-92
FirstExpand ==
    /\ pc = "check"
    /\ ~TooClose(x0, x1, args.rtol, args.atol)
    /\ f0 # f1
    /\ IntervalAsserts(x0, x1, f0, f1, args.a, args.b)
    /\ ~_boundary_equal(x1, args.a, args.b)
    /\ LET raw == Grow(x0, x1, args.gfactor)
           xn  == _ensure_boundary(raw, args.a, args.b)
       IN  /\ x2' = xn
           /\ f2' = F(args.f, xn)
           /\ genx' = genx \cup {xn}
           /\ gen' = <<x0, x1, raw, xn>>
    /\ Evaluate(1)
    /\ pc' = "expand"
    /\ UNCHANGED <<args, entry, x0, x1, f0, f1, nit, ecode, result, callno, bnit, nres>>

\* _bracket.py 94-95
EqualExpandReturn ==
    /\ pc = "expand"
    /\ f1 = f2
    /\ LET r == _resolve_equal_fvalue(args.f, x1, x2, f1, f2)
       IN  result' = r[1] /\ ecode' = r[2]
    /\ Evaluate(1)
    /\ genx' = genx \cup {Midpoint(x1, x2)}
    /\ pc' = "done"
    /\ UNCHANGED <<args, entry, x0, x1, x2, f0, f1, f2, nit, gen, callno, bnit, nres>>

\* _bracket.py 97-105: one iteration of the while loop
LoopStep ==
    /\ \/ pc = "expand" /\ f1 # f2
       \/ pc = "loop"
    /\ LoopCond(f0, f1, f2, nit, args.maxiter, x2, args.a, args.b)
    /\ nit' = nit + 1
    /\ LET raw == Grow(x1, x2, args.gfactor)
           xt  == _ensure_boundary(raw, args.a, args.b)
       IN  /\ x0' = x1 /\ x1' = x2 /\ x2' = xt
           /\ f0' = f1 /\ f1' = f2 /\ f2' = F(args.f, xt)
           /\ genx' = genx \cup {xt}
           /\ gen' = <<x1, x2, raw, xt>>
    /\ Evaluate(1)
    /\ pc' = "loop"
    /\ UNCHANGED <<args, entry, ecode, result, callno, bnit, nres>>

\* _bracket.py 107-116: the loop is over
LoopExitReturn ==
    /\ \/ pc = "expand" /\ f1 # f2
       \/ pc = "loop"
    /\ ~LoopCond(f0, f1, f2, nit, args.maxiter, x2, args.a, args.b)
    /\ ecode' = IF Bracketed(f0, f1, f2) THEN 1
                ELSE IF nit = args.maxiter THEN 4
                ELSE 2
    /\ result' = _sort(x0, x1, x2, f0, f1, f2)
    /\ pc' = "done"
    /\ UNCHANGED <<args, entry, x0, x1, x2, f0, f1, f2, nit, genx, gen,
                   nfev, ncalls, callno, bnit, nres>>

\* the refinement (brent): each iteration evaluates func once at a trial point
BrentStep ==
    /\ entry = "minimize"
    /\ pc \in {"done", "brent"}
    /\ bnit < args.maxiter
    /\ bnit' = bnit + 1
    /\ Evaluate(1)
    /\ pc' = "brent"
    /\ UNCHANGED <<args, entry, locals, callno, nres>>

\* optimize.py 70-72: brent has returned; minimize returns func.nfev
MinimizeReturn ==
    /\ entry = "minimize"
    /\ pc \in {"done", "brent"}
    /\ nres' = nfev
    /\ pc' = "returned"
    /\ UNCHANGED <<args, entry, locals, nfev, ncalls, callno, bnit>>

Next ==
    \/ BracketCall
    \/ MinimizeCall
    \/ BracketAssert
    \/ InitializeInterval
    \/ EvalStart
    \/ TooCloseReturn
    \/ EqualStartReturn
    \/ IntervalAssertFail
    \/ BoundaryStartReturn
    \/ FirstExpand
    \/ EqualExpandReturn
    \/ LoopStep
    \/ LoopExitReturn
    \/ BrentStep
    \/ MinimizeReturn

Spec == Init /\ [][Next]_vars

--------------------------------------------------------------------------
(* Sanity of the number representation: every abscissa is a whole number of *)
(* units, so the midpoint is exact                                          *)

ExactArithmetic ==
    /\ x0 % 2 = 0 /\ x1 % 2 = 0 /\ x2 % 2 = 0
    /\ Abs(x0) < inf \div 2 /\ Abs(x1) < inf \div 2 /\ Abs(x2) < inf \div 2

--------------------------------------------------------------------------
(* Vocabulary of the properties *)

Returned == result # <<>>

InBounds(x) == args.a <= x /\ x <= args.b

ValidArguments == args.gfactor > 1 /\ args.maxiter > 0 /\ args.a <= args.b

\* the starting points the caller supplied
Supplied == args.x0 \o args.x1

\* the starting points the caller supplied lie in [a, b]
AdmissibleStarts == \A i \in 1..Len(Supplied) : InBounds(Supplied[i])

\* the two starting points, supplied or derived, are distinct and at least 2 tol apart
WellSeparatedStarts ==
    LET r == _initialize_interval(args.x0, args.x1, args.a, args.b,
                                  args.gfactor, args.rtol, args.atol)
    IN  /\ r[1] # r[2]
        /\ ~TooClose(r[1], r[2], args.rtol, args.atol)
        /\ ~TooClose(r[2], r[1], args.rtol, args.atol)

\* the returned values are the values of f at the returned abscissas
ValuesMatch == \A i \in 1..3 : result[i + 3] = F(args.f, result[i])

StrictlyOrdered == result[1] < result[2] /\ result[2] < result[3]

WeaklyOrdered == result[1] <= result[2] /\ result[2] <= result[3]

ValidBracket ==
    /\ StrictlyOrdered
    /\ result[4] > result[5] /\ result[5] < result[6]
    /\ ValuesMatch

--------------------------------------------------------------------------
(* C1: whenever bracket returns status 1, on the expansion-loop path or on  *)
(* the equal-value bisection path, the returned tuple has x0 < x1 < x2,     *)
(* f0 > f1 < f2, and each fi is the value of f at xi.                       *)

C1_FoundIsValidBracket == (Returned /\ ecode = 1) => ValidBracket

\* found by the loop while searching downwards, so that _sort reversed the triple
C1_Witness == Returned /\ ecode = 1 /\ nit > 0 /\ x0 > x2

\* found by the bisection of two equal values
C1_WitnessBisection == Returned /\ ecode = 1 /\ pc = "done" /\ gen = <<>>

--------------------------------------------------------------------------
(* C2: for a strictly convex f whose minimum lies inside [a, b], with valid *)
(* arguments and admissible starting points, bracket returns status 1 and a *)
(* triple with f(x0) > f(x1) < f(x2) and a <= x0 < x1 < x2 <= b.            *)

C2_Pre ==
    /\ StrictlyConvex(args.f)
    /\ ValidArguments
    /\ MinimumInside(args.f, args.a, args.b)
    /\ AdmissibleStarts

\* the claim as stated, read with starting points that are well separated:
\* such a call never fails and returns found
C2_ConvexAlwaysFound ==
    (C2_Pre /\ WellSeparatedStarts) =>
              /\ pc # "failed"
              /\ Returned => /\ ecode = 1
                             /\ ValidBracket
                             /\ InBounds(result[1]) /\ InBounds(result[3])

\* amended: such a call returns found with a valid triple inside [a, b], or
\* too-close with starting points nearer than 2 tol, or hit-boundary with the
\* newest point on a or b, or max-iterations after maxiter expansions; it
\* returns not-strictly-convex only when the two starting points coincide
C2_ConvexOutcome ==
    C2_Pre =>
        /\ pc # "failed"
        /\ Returned =>
             \/ ecode = 1 /\ ValidBracket /\ InBounds(result[1]) /\ InBounds(result[3])
             \/ ecode = 3 /\ TooClose(x0, x1, args.rtol, args.atol)
             \/ ecode = 2 /\ _boundary_equal(x2, args.a, args.b)
                          /\ ~(f0 > f1 /\ f1 < f2)
             \/ ecode = 4 /\ nit = args.maxiter /\ ~(f0 > f1 /\ f1 < f2)
             \/ ecode = 5 /\ x0 = x1

\* a strictly convex call with its minimum inside that found its bracket in the loop
C2_Witness == C2_Pre /\ Returned /\ ecode = 1 /\ nit > 0

\* a strictly convex call, minimum inside, unbounded interval, that ran out of iterations
C2_WitnessMaxiter ==
    C2_Pre /\ Returned /\ ecode = 4 /\ args.a = -inf /\ args.b = inf

--------------------------------------------------------------------------
(* C3: when exactly one starting point is supplied, as x0 or as x1, the     *)
(* second is 10*gfactor*tol(x) away from it, towards whichever of a and b   *)
(* has more room, clamped to the bounds; with a positive tolerance and room *)
(* to move the two starting points are distinct.                            *)

DerivedFrom(s) ==
    IF ExtSub(s, args.a) > ExtSub(args.b, s)
    THEN Max2(s - 10 * args.gfactor * _tol(s, args.rtol, args.atol), args.a)
    ELSE Min2(s + 10 * args.gfactor * _tol(s, args.rtol, args.atol), args.b)

\* the bound the step heads for is not the supplied point itself
RoomToMove(s) == IF ExtSub(s, args.a) > ExtSub(args.b, s) THEN args.a < s ELSE s < args.b

C3_Holds(s) ==
    /\ x0 = s
    /\ x1 = DerivedFrom(s)
    /\ (_tol(s, args.rtol, args.atol) > 0 /\ RoomToMove(s)) => x0 # x1

C3_SecondPointDerived ==
    (pc = "eval" /\ Len(Supplied) = 1) => C3_Holds(Supplied[1])

\* the same for the point supplied as x0 only
C3_DerivedWhenGivenAsX0 ==
    (pc = "eval" /\ Len(args.x0) = 1 /\ Len(args.x1) = 0) => C3_Holds(args.x0[1])

--------------------------------------------------------------------------
(* C4: a call with gfactor <= 1, maxiter <= 0 or a > b fails at call time:  *)
(* it returns no result and f is not evaluated before the failure.          *)

InvalidArguments == args.gfactor <= 1 \/ args.maxiter <= 0 \/ args.a > args.b

C4_InvalidInputFailsFast == InvalidArguments => (~Returned /\ ncalls = 0)

\* the part of it the assertions of lines 61-62 do enforce
C4_GfactorMaxiterFailFast ==
    (args.gfactor <= 1 \/ args.maxiter <= 0) => (~Returned /\ ncalls = 0)

--------------------------------------------------------------------------
(* C5: for f strictly decreasing on [0, 1], bracket(f, a=0, b=1) with the   *)
(* default starting points and every other argument at its default returns *)
(* status 2 and a triple whose largest abscissa x2 equals b.                *)

C5_Pre ==
    /\ entry = "bracket"
    /\ args.x0 = <<>> /\ args.x1 = <<>>
    /\ args.a = 0 /\ args.b = One
    /\ args.gfactor = DefaultGfactor
    /\ args.rtol = DefaultRtol /\ args.atol = DefaultAtol
    /\ args.maxiter = DefaultMaxiter
    /\ StrictlyDecreasingOn(args.f, args.a, args.b)

C5_DecreasingHitsBoundary ==
    C5_Pre => /\ pc # "failed"
              /\ Returned => (ecode = 2 /\ result[3] = args.b)

C5_Witness == C5_Pre /\ Returned /\ ecode = 2 /\ nit > 0 /\ result[3] = One

--------------------------------------------------------------------------
(* C6: for a constant objective bracket never returns status 1: the result  *)
(* is always too-close (3) or not-strictly-convex (5), and the expansion    *)
(* loop is never entered.                                                   *)

C6_ConstantNeverFound ==
    Constant(args.f) =>
        /\ ecode \in {0, 3, 5}
        /\ Returned => ecode \in {3, 5}
        /\ pc \notin {"expand", "loop"}
        /\ nit = 0 /\ gen = <<>>

C6_Witness == Constant(args.f) /\ Returned /\ ecode = 5 /\ result[1] < result[3]

--------------------------------------------------------------------------
(* C7: the n_evaluations minimize returns is the number of times the        *)
(* caller's objective was invoked during that call, is strictly positive,   *)
(* and starts from zero on every call.                                      *)

C7_EvaluationCount ==
    /\ pc = "returned" => (nres = ncalls /\ nres > 0)
    /\ (entry = "minimize" /\ pc = "assert") => nfev = 0

\* a second call of minimize returned, after refinement steps
C7_Witness == pc = "returned" /\ callno = 2 /\ bnit > 0 /\ nres > 2

--------------------------------------------------------------------------
(* C8: every point the expansion generates is farther from the pivot x2 it  *)
(* was generated from than x2 is from x1: |new - x2| > |x2 - x1|, the first *)
(* expansion point and the points clamped to a or b included.               *)

Grows == Abs(gen[4] - gen[2]) > Abs(gen[2] - gen[1])

C8_StepAlwaysGrows == gen # <<>> => Grows

\* amended: it holds of every generated point that was not clamped to a or b;
\* a clamped point still lies strictly beyond the pivot, on the same side
C8_UnclampedStepGrows ==
    gen # <<>> =>
        /\ gen[4] = gen[3] => Grows
        /\ \/ gen[1] < gen[2] /\ gen[2] < gen[4]
           \/ gen[1] > gen[2] /\ gen[2] > gen[4]

\* an unclamped point generated inside the loop
C8_Witness == gen # <<>> /\ nit > 0 /\ gen[4] = gen[3]

\* a clamped point
C8_WitnessClamped == gen # <<>> /\ gen[4] # gen[3]

--------------------------------------------------------------------------
(* C9: every abscissa bracket generates itself lies in [a, b] when f is     *)
(* evaluated there, and every abscissa of the returned triple lies in       *)
(* [a, b].                                                                  *)

AbscissasInBounds ==
    /\ \A x \in genx : InBounds(x)
    /\ Returned => \A i \in 1..3 : InBounds(result[i])

\* the claim, for bounds a <= b
C9_AbscissasInBounds == args.a <= args.b => AbscissasInBounds

\* the same for calls whose supplied starting points lie inside [a, b]
C9_InBoundsForAdmissibleCalls ==
    (args.a <= args.b /\ AdmissibleStarts) => AbscissasInBounds

--------------------------------------------------------------------------
(* C10: every triple bracket returns, whatever its status, has              *)
(* x0 < x1 < x2 after _sort.                                                *)

C10_AlwaysStrictlyOrdered == Returned => StrictlyOrdered

\* amended: every returned triple has x0 <= x1 <= x2, strictly when the status
\* is found (1) or max-iterations (4); the too-close triple and the triple of a
\* downhill starting point on the boundary repeat an abscissa
C10_Ordered ==
    Returned => /\ WeaklyOrdered
                /\ ecode \in {1, 4} => StrictlyOrdered

\* a too-close triple whose starting points _sort had to reverse
C10_Witness == Returned /\ ecode = 3 /\ x0 > x1 /\ result[1] = x1 /\ result[3] = x0

====
